---- MODULE Spec2Model ----
(***************************************************************************)
(* Model of web-app.py: the sqlite result store (init_db, save_test_result,*)
(* get_recent_tests, get_kpis, delete_old_tests, the daily trend query) and *)
(* the run orchestrator run_robot_tests.                                    *)
(*                                                                          *)
(* Text is modelled as sequences of one-character strings, so that          *)
(* os.path.basename, strftime, SQL string comparison and SQL LIKE are       *)
(* computed character by character as the code computes them.               *)
(* The wall clock is counted in ticks finer than a second: strftime with    *)
(* "%Y-%m-%d %H:%M:%S" drops the sub-second part of datetime.now().         *)
(***************************************************************************)
EXTENDS Integers, Sequences, FiniteSets, TLC

\* ---------------------------------------------------------------- bounds
MaxRows == 2        \* rows ever inserted in one behaviour
MaxBatch == 2       \* files in one batch
MaxLines == 1       \* output lines captured from one runner
MaxTick == 2        \* clock ticks a behaviour lasts beyond MaxDaysArg days
MaxDaysArg == 1     \* largest days / window_days argument
MaxLimit == 2       \* largest limit argument of get_recent_tests
MaxExit == 1        \* largest runner exit code
MaxOrphans == 1     \* runner processes left unreaped at one time
TicksPerSec == 2    \* clock resolution below the second
SecPerDay == 2      \* scale of the calendar: seconds in a day

TicksPerDay == TicksPerSec * SecPerDay
StartTick == MaxDaysArg * TicksPerDay   \* the clock starts MaxDaysArg days after the epoch
EndTick == StartTick + MaxDaysArg * TicksPerDay + MaxTick

\* the page's calls: get_recent_tests(search=search_term) with its default limit;
\* get_kpis() and delete_old_tests(10), their day counts scaled to the model's calendar
DefaultLimit == 50
PageDays == MaxDaysArg

\* ---------------------------------------------------------------- text
Upper == <<"A","B","C","D","E","F","G","H","I","J","K","L","M",
           "N","O","P","Q","R","S","T","U","V","W","X","Y","Z">>
Lower == <<"a","b","c","d","e","f","g","h","i","j","k","l","m",
           "n","o","p","q","r","s","t","u","v","w","x","y","z">>

\* sqlite folds the 26 ASCII letters when LIKE compares two characters
Fold(c) ==
  IF \E i \in DOMAIN Upper : Upper[i] = c
  THEN Lower[CHOOSE i \in DOMAIN Upper : Upper[i] = c]
  ELSE c

Pass == <<"P","a","s","s">>
Fail == <<"F","a","i","l">>

\* the uploaded files: os.path.join("temp_uploads", f.name), and a bare name
FilePaths == { <<"u","/","c","h">>, <<"F","x">> }

\* search terms typed in the history box
Searches == { <<>>, <<"c","h">>, <<"f">>, <<"_","x">>, <<"%">> }

\* os.path.basename: the part after the last "/"
RECURSIVE basename(_)
basename(p) ==
  IF \E i \in DOMAIN p : p[i] = "/"
  THEN basename(Tail(p))
  ELSE p

TestNames == { basename(p) : p \in FilePaths }

\* ---------------------------------------------------------------- time
\* datetime.strftime("%Y-%m-%d %H:%M:%S"): zero-padded fields, most significant
\* first, the sub-second part dropped.  <<day tens, day units, second of day>>
strftime(t) ==
  LET sec == t \div TicksPerSec
      d   == sec \div SecPerDay
  IN  <<d \div 10, d % 10, sec % SecPerDay>>

\* datetime.now() - timedelta(days=days)
MinusDays(t, days) == t - days * TicksPerDay

\* SQL comparison of two TEXT values: character by character
RECURSIVE TextLess(_, _)
TextLess(a, b) ==
  IF b = <<>> THEN FALSE
  ELSE IF a = <<>> THEN TRUE
  ELSE IF Head(a) # Head(b) THEN Head(a) < Head(b)
  ELSE TextLess(Tail(a), Tail(b))

\* SQL DATE(execution_date): the calendar-date prefix of the text
DATE(ed) == SubSeq(ed, 1, 2)

\* ---------------------------------------------------------------- store
\* test_results rows: (id, test_name, execution_date, duration, status)
Row(id, name, ed, dur, st) ==
  [id |-> id, test_name |-> name, execution_date |-> ed, duration |-> dur, status |-> st]

\* SELECT * : the columns in the order of CREATE TABLE
AsTuple(r) == <<r.id, r.test_name, r.execution_date, r.duration, r.status>>

Max(S) == CHOOSE m \in S : \A x \in S : x <= m

\* a rowid chosen as sqlite does without AUTOINCREMENT: one more than the largest present
NextIdMaxRowid(st, sq) ==
  IF st = <<>> THEN 1 ELSE Max({ st[i].id : i \in DOMAIN st }) + 1

\* INTEGER PRIMARY KEY AUTOINCREMENT: one more than the largest id ever used
\* (sqlite_sequence), whatever has been deleted since
NextId(st, sq) == sq + 1

\* float(duration): the same number as a REAL
float(d) == d

\* INSERT INTO test_results (test_name, execution_date, duration, status) VALUES (?, ?, ?, ?)
save_test_result(st, sq, t, name, dur, status) ==
  Append(st, Row(NextId(st, sq), name, strftime(t), float(dur), status))

\* pattern LIKE of sqlite: % any run of characters, _ any one character,
\* any other character itself, ASCII letters compared without case
RECURSIVE LikeMatch(_, _)
LikeMatch(pat, s) ==
  IF pat = <<>> THEN s = <<>>
  ELSE IF Head(pat) = "%"
       THEN LikeMatch(Tail(pat), s) \/ (s # <<>> /\ LikeMatch(pat, Tail(s)))
       ELSE /\ s # <<>>
            /\ (Head(pat) = "_" \/ Fold(Head(pat)) = Fold(Head(s)))
            /\ LikeMatch(Tail(pat), Tail(s))

\* a LIKE that compares characters exactly and knows no wildcard but the wrapping %
RECURSIVE IsPrefix(_, _)
IsPrefix(a, s) ==
  IF a = <<>> THEN TRUE
  ELSE s # <<>> /\ Head(a) = Head(s) /\ IsPrefix(Tail(a), Tail(s))

RECURSIVE Contains(_, _)
Contains(s, a) ==
  IsPrefix(a, s) \/ (s # <<>> /\ Contains(Tail(s), a))

WhereSearchLiteral(r, search) ==
  Contains(r.test_name, search) \/ Contains(r.status, search)

\* WHERE test_name LIKE ? OR status LIKE ?   with (f"%{search}%", f"%{search}%")
WhereSearch(r, search) ==
  LET pat == <<"%">> \o search \o <<"%">>
  IN  LikeMatch(pat, r.test_name) \/ LikeMatch(pat, r.status)

\* the rows get_recent_tests selects: all of them when search is empty or None
Selected(st, search) ==
  IF search # <<>>
  THEN { st[i] : i \in { j \in DOMAIN st : WhereSearch(st[j], search) } }
  ELSE { st[i] : i \in DOMAIN st }

Perms(S) ==
  LET n == Cardinality(S)
  IN  { q \in [1..n -> S] : \A i, j \in 1..n : i < j => q[i] # q[j] }

\* ORDER BY datetime(execution_date) without DESC: the oldest first
OrderByDateAsc(S) ==
  LET P == Perms(S)
  IN  { q \in P :
          \A i, j \in DOMAIN q : i < j => ~TextLess(q[j].execution_date, q[i].execution_date) }

\* ORDER BY datetime(execution_date) DESC: every order sqlite may produce
\* (rows of equal execution_date come in no specified order)
OrderByDateDesc(S) ==
  LET P == Perms(S)
  IN  { q \in P :
          \A i, j \in DOMAIN q : i < j => ~TextLess(q[i].execution_date, q[j].execution_date) }

\* LIMIT ?
Limit(q, limit) ==
  SubSeq(q, 1, IF limit < Len(q) THEN limit ELSE Len(q))

\* get_recent_tests(limit, search): the data frames it may return
get_recent_tests(st, limit, search) ==
  LET S == Selected(st, search)
      Q == OrderByDateDesc(S)
  IN  { LET top == Limit(q, limit) IN [i \in DOMAIN top |-> AsTuple(top[i])] : q \in Q }

RECURSIVE SumDur(_)
SumDur(rows) ==
  IF rows = <<>> THEN 0 ELSE Head(rows).duration + SumDur(Tail(rows))

\* a fraction num/den, as get_kpis' floats
Frac(num, den) == <<num, den>>
Zero == Frac(0, 1)

\* WHERE execution_date > ?
InWindowStrict(r, since_dt) == TextLess(since_dt, r.execution_date)

\* WHERE execution_date >= ?
InWindow(r, since_dt) == ~TextLess(r.execution_date, since_dt)

\* get_kpis(days) called at time t: <<total, rate, avg>>
get_kpis(st, t, days) ==
  LET since_dt == strftime(MinusDays(t, days))
      rows == SelectSeq(st, LAMBDA r : InWindow(r, since_dt))
      durations == rows      \* d is never None: the column is written by float()
      avg == IF durations # <<>> THEN Frac(SumDur(durations), Len(durations)) ELSE Zero
      total == Len(rows)
      successes == Len(SelectSeq(rows, LAMBDA r : r.status = Pass))
      rate == IF total # 0 THEN Frac(successes * 100, total) ELSE Zero
  IN  <<total, rate, avg>>

\* DELETE ... WHERE execution_date <= ?
DeleteWhereLeq(r, threshold) == ~TextLess(threshold, r.execution_date)

\* DELETE FROM test_results WHERE execution_date < ?
DeleteWhere(r, threshold) == TextLess(r.execution_date, threshold)

\* delete_old_tests(days) called at time t: the rows left
delete_old_tests(st, t, days) ==
  LET threshold == strftime(MinusDays(t, days))
  IN  SelectSeq(st, LAMBDA r : ~DeleteWhere(r, threshold))

\* SUM(CASE WHEN status = s THEN 1 ELSE 0 END) over the rows of one date
RECURSIVE SumCase(_, _, _)
SumCase(st, d, s) ==
  IF st = <<>> THEN 0
  ELSE (IF DATE(Head(st).execution_date) = d /\ Head(st).status = s THEN 1 ELSE 0)
       + SumCase(Tail(st), d, s)

\* ORDER BY DATE(execution_date) taken descending
GroupOrderDesc(D) ==
  CHOOSE q \in [1..Cardinality(D) -> D] :
    \A i, j \in 1..Cardinality(D) : i < j => TextLess(q[j], q[i])

\* GROUP BY DATE(execution_date) ORDER BY DATE(execution_date)
GroupOrder(D) ==
  CHOOSE q \in [1..Cardinality(D) -> D] :
    \A i, j \in 1..Cardinality(D) : i < j => TextLess(q[i], q[j])

\* the daily trend query: (d, successes, failures) per date
daily_trend(st) ==
  LET D == { DATE(st[i].execution_date) : i \in DOMAIN st }
      q == GroupOrder(D)
  IN  [i \in DOMAIN q |-> <<q[i], SumCase(st, q[i], Pass), SumCase(st, q[i], Fail)>>]

\* ---------------------------------------------------------------- run_robot_tests
\* status = "Pass" if proc.returncode == 0 else "Fail"
StatusOf(rc) == IF rc = 0 THEN Pass ELSE Fail

\* duration = sum(1 for _ in output_lines)
DurationOf(lines) == Len(lines)

\* "\n".join(output_lines)
RECURSIVE Join(_)
Join(lines) ==
  IF lines = <<>> THEN <<>>
  ELSE IF Len(lines) = 1 THEN <<Head(lines)>>
  ELSE <<Head(lines), "\n">> \o Join(Tail(lines))

\* str(e) of the three exceptions the try block can raise
Faults == {"launch", "decode", "storage"}
str(e) == <<e>>

\* "return results" indented into the loop body: the batch ends after its first file
NextPcBreak(i, n) == "done"

\* for file_path in file_paths: the next iteration, or return results
NextPc(i, n) == IF i < n THEN "launch" ELSE "done"

\* ---------------------------------------------------------------- state
VARIABLES
  tableExists,   \* the table test_results exists in DB_FILE
  store,         \* its rows, in rowid order
  seqno,         \* sqlite_sequence: the largest id ever given
  issued,        \* history: every id ever given
  now,           \* the wall clock, in ticks
  pc,            \* run_robot_tests: idle, launch, read, save, handler, done, aborted
  file_paths,    \* its argument
  idx,           \* the position of the loop in file_paths
  output_lines,  \* the lines read from proc.stdout
  proc,          \* the child of this iteration: none, running, exited
  returncode,    \* proc.returncode
  results,       \* the list it returns
  fault,         \* the exception e being handled
  orphans,       \* runner processes alive that nobody waits for
  trace,         \* history: per file, how its runner ended
  base,          \* history: Len(store) when the batch began
  lastOp         \* history: the last store operation, its arguments and result

vars == <<tableExists, store, seqno, issued, now, pc, file_paths, idx, output_lines,
          proc, returncode, results, fault, orphans, trace, base, lastOp>>

runVars == <<pc, file_paths, idx, output_lines, proc, returncode, results, fault,
             trace, base>>

Op(op, arg, pre, res) == [op |-> op, arg |-> arg, pre |-> pre, res |-> res]
NoOp == Op("none", <<>>, <<>>, <<>>)

Init ==
  /\ tableExists = FALSE
  /\ store = <<>>
  /\ seqno = 0
  /\ issued = {}
  /\ now = StartTick
  /\ pc = "idle"
  /\ file_paths = <<>>
  /\ idx = 0
  /\ output_lines = <<>>
  /\ proc = "none"
  /\ returncode = 0
  /\ results = <<>>
  /\ fault = "none"
  /\ orphans = 0
  /\ trace = <<>>
  /\ base = 0
  /\ lastOp = NoOp

\* the script is single-threaded: a store operation runs when no batch is running
Idle == pc \in {"idle", "done", "aborted"}

\* the locals of run_robot_tests are gone once it has returned
RunReset ==
  /\ pc' = "idle"
  /\ file_paths' = <<>>
  /\ idx' = 0
  /\ output_lines' = <<>>
  /\ proc' = "none"
  /\ returncode' = 0
  /\ results' = <<>>
  /\ fault' = "none"
  /\ trace' = <<>>
  /\ base' = 0

\* the wall clock advances
Tick ==
  /\ now < EndTick
  /\ now' = now + 1
  /\ lastOp' = IF Idle THEN Op("tick", <<>>, <<>>, <<>>) ELSE lastOp
  /\ UNCHANGED <<tableExists, store, seqno, issued, orphans>>
  /\ UNCHANGED runVars

\* init_db(): CREATE TABLE IF NOT EXISTS
init_db ==
  /\ Idle
  /\ tableExists' = TRUE
  /\ lastOp' = Op("init_db", <<>>, <<>>, <<>>)
  /\ RunReset
  /\ UNCHANGED <<store, seqno, issued, now, orphans>>

\* save_test_result(test_name, duration, status)
Insert(name, dur, status) ==
  /\ Idle /\ tableExists
  /\ seqno < MaxRows
  /\ store' = save_test_result(store, seqno, now, name, dur, status)
  /\ seqno' = NextId(store, seqno)
  /\ issued' = issued \cup {NextId(store, seqno)}
  /\ lastOp' = Op("insert", <<name, dur, status>>, <<>>, <<>>)
  /\ RunReset
  /\ UNCHANGED <<tableExists, now, orphans>>

\* get_recent_tests(limit, search)
QueryRecent(limit, search) ==
  /\ Idle /\ tableExists
  /\ \E df \in get_recent_tests(store, limit, search) :
       lastOp' = Op("recent", <<limit, search>>, <<>>, df)
  /\ RunReset
  /\ UNCHANGED <<tableExists, store, seqno, issued, now, orphans>>

\* get_kpis(days)
QueryKpis(days) ==
  /\ Idle /\ tableExists
  /\ lastOp' = Op("kpis", <<days>>, <<>>, get_kpis(store, now, days))
  /\ RunReset
  /\ UNCHANGED <<tableExists, store, seqno, issued, now, orphans>>

\* the daily trend query of the page
QueryTrend ==
  /\ Idle /\ tableExists
  /\ lastOp' = Op("trend", <<>>, <<>>, daily_trend(store))
  /\ RunReset
  /\ UNCHANGED <<tableExists, store, seqno, issued, now, orphans>>

\* delete_old_tests(days)
Delete(days) ==
  /\ Idle /\ tableExists
  /\ store' = delete_old_tests(store, now, days)
  /\ lastOp' = Op("delete", <<days>>, store, <<>>)
  /\ RunReset
  /\ UNCHANGED <<tableExists, seqno, issued, now, orphans>>

\* the duration the except branch records: save_test_result(test_name, 0.0, "Fail")
HandlerDuration == 0

Batches == UNION { [1..n -> FilePaths] : n \in 1..MaxBatch }

Exited(rc, n) == [kind |-> "exit", rc |-> rc, n |-> n, e |-> "none"]
Raised(e) == [kind |-> "fault", rc |-> 0, n |-> 0, e |-> e]

\* run_robot_tests(file_paths, browser): results = []
RunStart(fps) ==
  /\ Idle /\ tableExists
  /\ seqno + Len(fps) <= MaxRows
  /\ pc' = "launch"
  /\ file_paths' = fps
  /\ idx' = 1
  /\ output_lines' = <<>>
  /\ proc' = "none"
  /\ returncode' = 0
  /\ results' = <<>>
  /\ fault' = "none"
  /\ trace' = <<>>
  /\ base' = Len(store)
  /\ lastOp' = Op("run", <<>>, <<>>, <<>>)
  /\ UNCHANGED <<tableExists, store, seqno, issued, now, orphans>>

\* proc = subprocess.Popen(cmd, ...); ok = FALSE: it raises (no such executable)
Launch(ok) ==
  /\ pc = "launch"
  /\ output_lines' = <<>>
  /\ IF ok
     THEN /\ proc' = "running"
          /\ pc' = "read"
          /\ UNCHANGED <<fault, trace>>
     ELSE /\ proc' = "none"
          /\ pc' = "handler"
          /\ fault' = "launch"
          /\ trace' = Append(trace, Raised("launch"))
  /\ UNCHANGED <<tableExists, store, seqno, issued, now, file_paths, idx, returncode,
                 results, orphans, base, lastOp>>

\* for line in proc.stdout: output_lines.append(line)
ReadLine ==
  /\ pc = "read" /\ proc = "running"
  /\ Len(output_lines) < MaxLines
  /\ output_lines' = Append(output_lines, "l")
  /\ UNCHANGED <<tableExists, store, seqno, issued, now, pc, file_paths, idx, proc,
                 returncode, results, fault, orphans, trace, base, lastOp>>

\* the runner of this iteration exits with code rc
ChildExit(rc) ==
  /\ pc = "read" /\ proc = "running"
  /\ proc' = "exited"
  /\ returncode' = rc
  /\ UNCHANGED <<tableExists, store, seqno, issued, now, pc, file_paths, idx,
                 output_lines, results, fault, orphans, trace, base, lastOp>>

\* for line in proc.stdout raises (text=True: bytes the locale cannot decode);
\* control leaves the try block before proc.wait(), the child is not reaped
ReadFault ==
  /\ pc = "read"
  /\ proc = "running" => orphans < MaxOrphans
  /\ orphans' = IF proc = "running" THEN orphans + 1 ELSE orphans
  /\ proc' = "none"
  /\ pc' = "handler"
  /\ fault' = "decode"
  /\ trace' = Append(trace, Raised("decode"))
  /\ UNCHANGED <<tableExists, store, seqno, issued, now, file_paths, idx, output_lines,
                 returncode, results, base, lastOp>>

\* end of proc.stdout, then proc.wait() returns: the child has exited
Wait ==
  /\ pc = "read" /\ proc = "exited"
  /\ pc' = "save"
  /\ trace' = Append(trace, Exited(returncode, Len(output_lines)))
  /\ UNCHANGED <<tableExists, store, seqno, issued, now, file_paths, idx, output_lines,
                 proc, returncode, results, fault, orphans, base, lastOp>>

\* duration = ...; status = ...; save_test_result(test_name, duration, status);
\* results.append(...).  ok = FALSE: save_test_result raises inside the try block
Save(ok) ==
  /\ pc = "save"
  /\ LET test_name == basename(file_paths[idx])
         duration == DurationOf(output_lines)
         status == StatusOf(returncode)
     IN  IF ok
         THEN /\ store' = save_test_result(store, seqno, now, test_name, duration, status)
              /\ seqno' = NextId(store, seqno)
              /\ issued' = issued \cup {NextId(store, seqno)}
              /\ results' = Append(results, <<test_name, status, Join(output_lines)>>)
              /\ pc' = NextPc(idx, Len(file_paths))
              /\ idx' = idx + 1
              /\ proc' = "none"
              /\ UNCHANGED fault
         ELSE /\ pc' = "handler"
              /\ fault' = "storage"
              /\ UNCHANGED <<store, seqno, issued, results, idx, proc>>
  /\ UNCHANGED <<tableExists, now, file_paths, output_lines, returncode, orphans, trace,
                 base, lastOp>>

\* except Exception as e: save_test_result(test_name, 0.0, "Fail");
\* results.append((test_name, "Fail", str(e))).  ok = FALSE: save_test_result
\* raises in the handler and the exception leaves run_robot_tests
Handler(ok) ==
  /\ pc = "handler"
  /\ LET test_name == basename(file_paths[idx])
     IN  IF ok
         THEN /\ store' = save_test_result(store, seqno, now, test_name, HandlerDuration, Fail)
              /\ seqno' = NextId(store, seqno)
              /\ issued' = issued \cup {NextId(store, seqno)}
              /\ results' = Append(results, <<test_name, Fail, str(fault)>>)
              /\ pc' = NextPc(idx, Len(file_paths))
              /\ idx' = idx + 1
              /\ fault' = "none"
         ELSE /\ pc' = "aborted"
              /\ UNCHANGED <<store, seqno, issued, results, idx, fault>>
  /\ proc' = "none"
  /\ UNCHANGED <<tableExists, now, file_paths, output_lines, returncode, orphans, trace,
                 base, lastOp>>

\* a runner that was left behind exits
OrphanExit ==
  /\ orphans > 0
  /\ orphans' = orphans - 1
  /\ UNCHANGED <<tableExists, store, seqno, issued, now, lastOp>>
  /\ UNCHANGED runVars

\* the store on its own: its operations in any order
NextStore ==
  \/ Tick
  \/ init_db
  \/ \E name \in TestNames, dur \in 0..MaxLines, status \in {Pass, Fail} :
       Insert(name, dur, status)
  \/ \E limit \in 0..MaxLimit, search \in Searches : QueryRecent(limit, search)
  \/ \E days \in 0..MaxDaysArg : QueryKpis(days)
  \/ QueryTrend
  \/ \E days \in 0..MaxDaysArg : Delete(days)

SpecStore == Init /\ [][NextStore]_vars

\* the orchestrator on its own: batches one after the other
NextRun ==
  \/ Tick
  \/ init_db
  \/ \E fps \in Batches : RunStart(fps)
  \/ \E ok \in BOOLEAN : Launch(ok)
  \/ ReadLine
  \/ \E rc \in 0..MaxExit : ChildExit(rc)
  \/ ReadFault
  \/ Wait
  \/ \E ok \in BOOLEAN : Save(ok)
  \/ \E ok \in BOOLEAN : Handler(ok)
  \/ OrphanExit

SpecRun == Init /\ [][NextRun]_vars

\* the whole page: the batches it runs and the store calls it makes between them
Next ==
  \/ Tick
  \/ init_db
  \/ \E search \in Searches : QueryRecent(DefaultLimit, search)
  \/ QueryKpis(PageDays)
  \/ QueryTrend
  \/ Delete(PageDays)
  \/ \E fps \in Batches : RunStart(fps)
  \/ \E ok \in BOOLEAN : Launch(ok)
  \/ ReadLine
  \/ \E rc \in 0..MaxExit : ChildExit(rc)
  \/ ReadFault
  \/ Wait
  \/ \E ok \in BOOLEAN : Save(ok)
  \/ \E ok \in BOOLEAN : Handler(ok)
  \/ OrphanExit

Spec == Init /\ [][Next]_vars

\* ================================================================ properties
\* the instant an execution_date text denotes, in ticks
TimeOf(ed) == ((ed[1] * 10 + ed[2]) * SecPerDay + ed[3]) * TicksPerSec

\* t with its sub-second part dropped
WholeSecond(t) == (t \div TicksPerSec) * TicksPerSec

Min(a, b) == IF a < b THEN a ELSE b

RECURSIVE SumOver(_, _)
SumOver(st, I) ==
  IF I = {} THEN 0
  ELSE LET i == CHOOSE k \in I : TRUE
       IN  st[i].duration + SumOver(st, I \ {i})

Running == pc \in {"launch", "read", "save", "handler"}

\* the row of the current batch's i-th file
BatchRow(i) == store[base + i]

\* ---------------------------------------------------------------- C1
\* C1: run_robot_tests isolates runner faults per file.  While a batch runs, every
\* file before the current one has exactly one row and one result entry, in batch
\* order, and the batch is left abnormally only from inside the except branch (its
\* own insert raising); when it returns, the store has gained exactly n rows and the result has n
\* entries in the order of file_paths; the row of a file whose launch or read raised
\* is Fail with duration 0 and its output is the fault's text; a fault in one file
\* does not keep the later files from being run and recorded.
C1_FaultIsolation ==
  /\ (Running \/ pc = "aborted") =>
       /\ idx \in 1..Len(file_paths)
       /\ Len(results) = idx - 1
       /\ Len(store) = base + idx - 1
  /\ pc = "aborted" => fault \in Faults
  /\ pc = "done" =>
       /\ Len(results) = Len(file_paths)
       /\ Len(store) = base + Len(file_paths)
       /\ Len(trace) = Len(file_paths)
  /\ pc # "idle" =>
       \A i \in 1..Len(results) :
         /\ results[i][1] = basename(file_paths[i])
         /\ BatchRow(i).test_name = basename(file_paths[i])
         /\ \A j \in 1..Len(results) : i < j => BatchRow(i).id < BatchRow(j).id
         /\ trace[i].kind = "fault" =>
              /\ BatchRow(i).status = Fail
              /\ BatchRow(i).duration = 0
              /\ results[i][2] = Fail
              /\ results[i][3] = <<trace[i].e>>

\* a two-file batch has returned: the first file's runner faulted, the second ran
C1_Witness ==
  /\ pc = "done"
  /\ Len(file_paths) = 2
  /\ trace[1].kind = "fault"
  /\ trace[2].kind = "exit"
  /\ BatchRow(2).status = Pass

\* ---------------------------------------------------------------- C2
\* C2: for every file whose runner was launched and exited without a fault, the
\* persisted row has the file's base name, status Pass exactly when the exit code is
\* 0, duration equal to the number of captured lines, and the returned status equals
\* the row's status.
C2_AsClaimed ==
  pc # "idle" =>
    \A i \in 1..Len(results) :
      trace[i].kind = "exit" =>
        /\ BatchRow(i).test_name = basename(file_paths[i])
        /\ BatchRow(i).status \in {Pass, Fail}
        /\ (BatchRow(i).status = Pass) <=> (trace[i].rc = 0)
        /\ BatchRow(i).duration = trace[i].n
        /\ results[i][2] = BatchRow(i).status

\* ---------------------------------------------------------------- C8
\* C8: a failure of the store's insert is never handled by the per-file handler and
\* never becomes a Fail result of the file: no result entry carries the text of a
\* storage fault.
C8_AsClaimed ==
  \A i \in 1..Len(results) : results[i][3] # str("storage")

\* ---------------------------------------------------------------- C10
\* the runner processes alive
Alive == orphans + (IF proc = "running" THEN 1 ELSE 0)

\* C10: the files of a batch run strictly in sequence: at most one runner child
\* process is alive at any time.
C10_AsClaimed == Alive <= 1

\* ---------------------------------------------------------------- C3
\* the rows of st dated at or after the instant t, in their order
KeptFrom(st, t) == SelectSeq(st, LAMBDA r : TimeOf(r.execution_date) >= t)

\* C3 as stated: delete_old_tests(days) leaves exactly the rows whose execution_date
\* is not strictly before now - days, unchanged.
C3_AsClaimed ==
  lastOp.op = "delete" =>
    store = KeptFrom(lastOp.pre, MinusDays(now, lastOp.arg[1]))

\* C3 amended: delete_old_tests(days) leaves exactly the rows whose execution_date
\* is not strictly before (now - days) cut to the whole second, unchanged and in
\* their order; every row before that second is gone.
C3_Retention ==
  lastOp.op = "delete" =>
    store = KeptFrom(lastOp.pre, WholeSecond(MinusDays(now, lastOp.arg[1])))

\* a sweep has removed the older of two rows and kept the newer
C3_Witness ==
  /\ lastOp.op = "delete"
  /\ Len(lastOp.pre) = 2
  /\ store = <<lastOp.pre[2]>>

\* ---------------------------------------------------------------- C4
\* the KPIs over the rows dated at or after the instant t
KpisFrom(st, t, res) ==
  LET W == { i \in DOMAIN st : TimeOf(st[i].execution_date) >= t }
      S == { i \in W : st[i].status = Pass }
      total == res[1]
      rate == res[2]
      avg == res[3]
  IN  /\ total = Cardinality(W)
      /\ rate[2] # 0 /\ avg[2] # 0
      /\ IF W = {}
         THEN rate = Zero /\ avg = Zero
         ELSE /\ rate[1] * Cardinality(W) = Cardinality(S) * 100 * rate[2]
              /\ avg[1] * Cardinality(W) = SumOver(st, W) * avg[2]

\* C4 as stated: get_kpis(days) computes total, success rate and average duration
\* over exactly the rows with execution_date >= now - days.
C4_AsClaimed ==
  lastOp.op = "kpis" =>
    KpisFrom(store, MinusDays(now, lastOp.arg[1]), lastOp.res)

\* C4 amended: get_kpis(days) computes over exactly the rows with execution_date >=
\* (now - days) cut to the whole second: total is their number, the rate is passes /
\* total * 100, the average is the mean of their durations; an empty window gives
\* 0, 0.0, 0.0 with no division by zero; rows outside the window change nothing.
C4_Kpis ==
  lastOp.op = "kpis" =>
    KpisFrom(store, WholeSecond(MinusDays(now, lastOp.arg[1])), lastOp.res)

\* the window holds one of two rows, a Pass: total 1, rate 100
C4_Witness ==
  /\ lastOp.op = "kpis"
  /\ Len(store) = 2
  /\ store[1].status = Fail
  /\ lastOp.res[1] = 1
  /\ lastOp.res[2] = Frac(100, 1)

\* the window is empty though the store is not
C4_WitnessEmpty ==
  /\ lastOp.op = "kpis"
  /\ store # <<>>
  /\ lastOp.res = <<0, Zero, Zero>>

\* ---------------------------------------------------------------- C5
\* s holds a stretch that the filter f describes: a "%" of f stands for any run of
\* characters, a "_" for any one character, any other character for itself with
\* the ASCII letters taken without case.  at[i] is the place in s of the last
\* character used up by f[1..i].
Describes(f, s) ==
  \E at \in [0..Len(f) -> 0..Len(s)] :
    \A i \in 1..Len(f) :
      IF f[i] = "%"
      THEN at[i] >= at[i - 1]
      ELSE /\ at[i] = at[i - 1] + 1
           /\ (f[i] = "_" \/ Fold(f[i]) = Fold(s[at[i]]))

\* the rows a filter admits under LIKE
Admitted(st, search) ==
  { i \in DOMAIN st :
      \/ search = <<>>
      \/ Describes(search, st[i].test_name)
      \/ Describes(search, st[i].status) }

\* C5 as stated: with a non-empty filter get_recent_tests returns only rows whose
\* test_name or status contains the filter as a case-sensitive, literal substring.
C5_AsClaimed ==
  (lastOp.op = "recent" /\ lastOp.arg[2] # <<>>) =>
    \A k \in DOMAIN lastOp.res :
      \/ Contains(lastOp.res[k][2], lastOp.arg[2])
      \/ Contains(lastOp.res[k][5], lastOp.arg[2])

\* C5 amended: with a non-empty filter get_recent_tests returns only rows whose
\* test_name or status matches %filter% as sqlite's LIKE does (ASCII letters without
\* case, "_" of the filter any one character, "%" any run), and up to the limit all
\* of them; with an empty filter no row is excluded.
C5_LikeFilter ==
  lastOp.op = "recent" =>
    LET M == Admitted(store, lastOp.arg[2])
    IN  /\ \A k \in DOMAIN lastOp.res : \E i \in M : lastOp.res[k][1] = store[i].id
        /\ Len(lastOp.res) = Min(lastOp.arg[1], Cardinality(M))

\* the filter "ch" over rows named "ch" and "Fx" returns only the first
C5_Witness ==
  /\ lastOp.op = "recent"
  /\ lastOp.arg = <<2, <<"c","h">>>>
  /\ Len(store) = 2
  /\ store[1].test_name = <<"c","h">>
  /\ store[2].test_name = <<"F","x">>
  /\ Len(lastOp.res) = 1
  /\ lastOp.res[1][1] = store[1].id

\* ---------------------------------------------------------------- C6
\* C6: an unfiltered get_recent_tests(limit) returns min(limit, N) distinct rows of
\* the store, newest first, as (id, test_name, execution_date, duration, status);
\* a row left out is never more recent than a row returned; with limit >= N every
\* row is returned.  After save_test_result(test_name, duration, status) the store's
\* newest row carries exactly these three values and every unfiltered query with
\* limit >= N returns it.
C6_Recent ==
  /\ (lastOp.op = "recent" /\ lastOp.arg[2] = <<>>) =>
       LET res == lastOp.res
           limit == lastOp.arg[1]
           In == { i \in DOMAIN store : \E k \in DOMAIN res : res[k][1] = store[i].id }
       IN  /\ Len(res) = Min(limit, Len(store))
           /\ \A k \in DOMAIN res :
                /\ Len(res[k]) = 5
                /\ \E i \in DOMAIN store :
                     res[k] = <<store[i].id, store[i].test_name, store[i].execution_date,
                                store[i].duration, store[i].status>>
           /\ \A k, m \in DOMAIN res :
                k < m => /\ res[k][1] # res[m][1]
                         /\ TimeOf(res[k][3]) >= TimeOf(res[m][3])
           /\ \A i \in DOMAIN store \ In, j \in In :
                TimeOf(store[i].execution_date) <= TimeOf(store[j].execution_date)
           /\ limit >= Len(store) => In = DOMAIN store
  /\ lastOp.op = "insert" =>
       /\ store # <<>>
       /\ LET r == store[Len(store)]
          IN  /\ <<r.test_name, r.duration, r.status>> = lastOp.arg
              /\ \A df \in get_recent_tests(store, Len(store), <<>>) :
                   \E k \in DOMAIN df : df[k] = <<r.id, lastOp.arg[1], r.execution_date,
                                                   lastOp.arg[2], lastOp.arg[3]>>

\* limit 1 over two rows of different dates: the newer one is returned
C6_Witness ==
  /\ lastOp.op = "recent"
  /\ lastOp.arg = <<1, <<>>>>
  /\ Len(store) = 2
  /\ store[1].execution_date # store[2].execution_date
  /\ Len(lastOp.res) = 1
  /\ lastOp.res[1][1] = store[2].id

\* ---------------------------------------------------------------- C7
\* the calendar day an execution_date text or a date text denotes
DayOf(d) == d[1] * 10 + d[2]

\* C7: the daily trend has one (date, pass_count, fail_count) entry per distinct
\* calendar date of the stored rows, in ascending date order, the counts being the
\* numbers of that date's rows with status Pass and Fail; all counts together are
\* the number of stored rows.
C7_DailyTrend ==
  lastOp.op = "trend" =>
    LET res == lastOp.res
        Days == { DayOf(store[i].execution_date) : i \in DOMAIN store }
        On(d, s) == { i \in DOMAIN store :
                        DayOf(store[i].execution_date) = d /\ store[i].status = s }
    IN  /\ Len(res) = Cardinality(Days)
        /\ \A k \in DOMAIN res :
             /\ DayOf(res[k][1]) \in Days
             /\ res[k][1] = DATE(res[k][1])
             /\ res[k][2] = Cardinality(On(DayOf(res[k][1]), Pass))
             /\ res[k][3] = Cardinality(On(DayOf(res[k][1]), Fail))
        /\ \A k, m \in DOMAIN res : k < m => DayOf(res[k][1]) < DayOf(res[m][1])
        /\ SumOver([k \in DOMAIN res |-> [duration |-> res[k][2] + res[k][3]]],
                   DOMAIN res) = Len(store)

\* two dates: a Pass on the first, a Fail on the second
C7_Witness ==
  /\ lastOp.op = "trend"
  /\ Len(lastOp.res) = 2
  /\ lastOp.res[1][2] = 1 /\ lastOp.res[1][3] = 0
  /\ lastOp.res[2][2] = 0 /\ lastOp.res[2][3] = 1

\* ---------------------------------------------------------------- C9
Ids(st) == { st[i].id : i \in DOMAIN st }

\* C9: in every step, a row that appears has an id never given before and larger
\* than every id given before; the ids of the store are pairwise distinct; a row
\* that stays keeps its test_name, execution_date, duration and status; a row
\* disappears only in delete_old_tests; init_db and the three queries leave the
\* rows as they are.
C9_RowLifecycle ==
  [][ /\ \A i \in DOMAIN store' :
           store'[i].id \notin Ids(store) =>
             /\ store'[i].id \notin issued
             /\ \A j \in issued : j < store'[i].id
      /\ \A i, j \in DOMAIN store' : i # j => store'[i].id # store'[j].id
      /\ \A i \in DOMAIN store, j \in DOMAIN store' :
           store[i].id = store'[j].id => store[i] = store'[j]
      /\ (\E i \in DOMAIN store : store[i].id \notin Ids(store')) => lastOp'.op = "delete"
      /\ lastOp'.op \in {"init_db", "recent", "kpis", "trend"} => store' = store
    ]_vars

\* a batch that began on a store emptied by a sweep has recorded its file under
\* id 2: id 1, given before the sweep, is not given again
C9_Witness ==
  /\ pc = "done"
  /\ base = 0
  /\ issued = {1, 2}
  /\ Len(store) = 1
  /\ store[1].id = 2

====
